---- MODULE Spec2Model ----
(***************************************************************************)
(* Model of net/packet: the IPv4 header (ip4.go) and the ICMPv4 header     *)
(* (icmp4.go).  A byte buffer ([]byte) is a sequence of bytes 0..255; the  *)
(* operators at, set8, put16, put32 and Slice take the 0-based offsets of  *)
(* the Go source.  A header value is a record; the embedded IP4Header of   *)
(* an ICMP4Header is the field IP4Header.                                  *)
(***************************************************************************)
EXTENDS Integers, Sequences, FiniteSets

VARIABLES
    hdr,    \* the caller's header value (an ICMP4Header, IP4Header embedded)
    buf,    \* the caller's buffer
    hdr0,   \* hdr as it was before the last call
    buf0,   \* buf as it was before the last call
    op,     \* the last operation called ("init" before any call)
    err,    \* what the last marshal call returned
    orig,   \* the header value the caller constructed
    nIP,    \* calls of IP4Header.ToResponse made directly on the embedded header
    nICMP,  \* calls of ICMP4Header.ToResponse
    ip,     \* the address given to the classification predicates
    ret     \* what the last predicate call returned

vars == <<hdr, buf, hdr0, buf0, op, err, orig, nIP, nICMP, ip, ret>>

----------------------------------------------------------------------------
(* Bounds of the model *)

\* payload bytes after the 24 header bytes in the small buffers
MaxPayload == 2
\* ToResponse calls in one behaviour
MaxCalls == 3

----------------------------------------------------------------------------
(* Program constants *)

Unknown == 0
ICMP == 1
TCP == 6
UDP == 17
Fragment == 255

ICMP4EchoReply == 0
ICMP4EchoRequest == 8
ICMP4Unreachable == 3
ICMP4NoCode == 0

ipHeaderLength == 20
icmpHeaderLength == 4
icmpAllHeadersLength == ipHeaderLength + icmpHeaderLength

\* The fixed maximum of a packet's length (declared outside ip4.go and
\* icmp4.go): the largest value of the 16-bit total-length field
maxPacketLength == 65535

nil == "nil"
errSmallBuffer == "buffer too small"
errLargePacket == "packet too large"

----------------------------------------------------------------------------
(* Fixed-width integer arithmetic *)

Pow2(n) == 2 ^ n
U8(x) == x % 256
U16(x) == x % 65536

\* x >> n
Shr(x, n) == x \div Pow2(n)

RECURSIVE BitAnd(_, _)
BitAnd(a, b) ==
    IF a = 0 \/ b = 0 THEN 0
    ELSE 2 * BitAnd(a \div 2, b \div 2) + (IF a % 2 = 1 /\ b % 2 = 1 THEN 1 ELSE 0)

RECURSIVE BitOr(_, _)
BitOr(a, b) ==
    IF a = 0 THEN b
    ELSE IF b = 0 THEN a
    ELSE 2 * BitOr(a \div 2, b \div 2) + (IF a % 2 = 1 \/ b % 2 = 1 THEN 1 ELSE 0)

\* ^x on a uint16
Not16(x) == 65535 - U16(x)

\* A uint32 is the pair <<high 16 bits, low 16 bits>> (the model checker's
\* integers end at 2^31 - 1).  byte(x >> n), for n a multiple of 8:
Byte32(x, n) == IF n >= 16 THEN U8(Shr(x[1], n - 16)) ELSE U8(Shr(x[2], n))

----------------------------------------------------------------------------
(* Buffers and the byte-order codec *)

\* b[i]
at(b, i) == b[i + 1]

\* b[i] = v
set8(b, i, v) == [b EXCEPT ![i + 1] = v]

\* b[lo:hi]
Slice(b, lo, hi) == SubSeq(b, lo + 1, hi)

\* put16(b[off:off+2], v): big-endian
put16(b, off, v) ==
    [b EXCEPT ![off + 1] = U8(Shr(v, 8)), ![off + 2] = U8(v)]

\* put32(b[off:off+4], v)
put32(b, off, v) ==
    [b EXCEPT ![off + 1] = Byte32(v, 24), ![off + 2] = Byte32(v, 16),
              ![off + 3] = Byte32(v, 8), ![off + 4] = Byte32(v, 0)]

\* get16(b[off:off+2])
get16(b, off) == at(b, off) * 256 + at(b, off + 1)

----------------------------------------------------------------------------
(* The checksum engine *)

\* The big-endian 16-bit word number k of the n bytes of b; an odd trailing
\* byte is the high byte of a last word.
Word(b, n, k) ==
    IF 2 * k + 1 < n THEN at(b, 2 * k) * 256 + at(b, 2 * k + 1)
    ELSE at(b, 2 * k) * 256

\* The sum of the words number lo..hi-1 of the n bytes of b
RECURSIVE SumWords(_, _, _, _)
SumWords(b, n, lo, hi) ==
    IF lo >= hi THEN 0
    ELSE IF hi = lo + 1 THEN Word(b, n, lo)
    ELSE LET mid == (lo + hi) \div 2
         IN  SumWords(b, n, lo, mid) + SumWords(b, n, mid, hi)

\* for (ac >> 16) > 0 { ac = (ac >> 16) + (ac & 0xffff) }
RECURSIVE FoldCarry(_)
FoldCarry(ac) ==
    IF Shr(ac, 16) > 0 THEN FoldCarry(Shr(ac, 16) + BitAnd(ac, 65535)) ELSE ac

ipChecksum(b) ==
    \* ac is a uint32; the sum of the words of 65536 bytes is below 2^31
    LET ac == SumWords(b, Len(b), 0, (Len(b) + 1) \div 2)
    IN  Not16(FoldCarry(ac))

----------------------------------------------------------------------------
(* ip4.go *)

\* The IP4 whose big-endian bytes are a, b, c, d
IPv4(a, b, c, d) == <<a * 256 + b, c * 256 + d>>

\* IsMulticast with the mask 0xe0 for 0xf0
IP4_IsMulticast_MaskE0(a) == BitAnd(Byte32(a, 24), 224) = 224

IP4_IsMulticast(a) == BitAnd(Byte32(a, 24), 240) = 224

IP4_IsLinkLocalUnicast(a) == Byte32(a, 24) = 169 /\ Byte32(a, 16) = 254

\* Marshal that sums the header without blanking the checksum field
IP4Header_Marshal_NoBlank(h, b) ==
    IF Len(b) < ipHeaderLength
    THEN [err |-> errSmallBuffer, buf |-> b, h |-> h]
    ELSE IF Len(b) > maxPacketLength
    THEN [err |-> errLargePacket, buf |-> b, h |-> h]
    ELSE LET b0  == set8(b, 0, BitOr(64, Shr(ipHeaderLength, 2)))
             b1  == set8(b0, 1, 0)
             b2  == put16(b1, 2, U16(Len(b)))
             b3  == put16(b2, 4, h.IPID)
             b4  == put16(b3, 6, 0)
             b5  == set8(set8(b4, 8, 64), 9, U8(h.IPProto))
             b7  == put32(b5, 12, h.SrcIP)
             b8  == put32(b7, 16, h.DstIP)
             b9  == put16(b8, 10, ipChecksum(Slice(b8, 0, 20)))
         IN  [err |-> nil, buf |-> b9, h |-> h]

\* Marshal that writes the payload length as the total length
IP4Header_Marshal_PayloadLen(h, b) ==
    IF Len(b) < ipHeaderLength
    THEN [err |-> errSmallBuffer, buf |-> b, h |-> h]
    ELSE IF Len(b) > maxPacketLength
    THEN [err |-> errLargePacket, buf |-> b, h |-> h]
    ELSE LET b0  == set8(b, 0, BitOr(64, Shr(ipHeaderLength, 2)))
             b1  == set8(b0, 1, 0)
             b2  == put16(b1, 2, U16(Len(b) - ipHeaderLength))
             b3  == put16(b2, 4, h.IPID)
             b4  == put16(b3, 6, 0)
             b5  == set8(set8(b4, 8, 64), 9, U8(h.IPProto))
             b6  == put16(b5, 10, 0)
             b7  == put32(b6, 12, h.SrcIP)
             b8  == put32(b7, 16, h.DstIP)
             b9  == put16(b8, 10, ipChecksum(Slice(b8, 0, 20)))
         IN  [err |-> nil, buf |-> b9, h |-> h]

\* A marshal call returns err, leaves the buffer as buf, and leaves the
\* caller's header value as h (the receiver is passed by value).
IP4Header_Marshal(h, b) ==
    IF Len(b) < ipHeaderLength
    THEN [err |-> errSmallBuffer, buf |-> b, h |-> h]
    ELSE IF Len(b) > maxPacketLength
    THEN [err |-> errLargePacket, buf |-> b, h |-> h]
    ELSE LET b0  == set8(b, 0, BitOr(64, Shr(ipHeaderLength, 2)))
             b1  == set8(b0, 1, 0)
             b2  == put16(b1, 2, U16(Len(b)))
             b3  == put16(b2, 4, h.IPID)
             b4  == put16(b3, 6, 0)
             b5  == set8(set8(b4, 8, 64), 9, U8(h.IPProto))
             b6  == put16(b5, 10, 0)
             b7  == put32(b6, 12, h.SrcIP)
             b8  == put32(b7, 16, h.DstIP)
             b9  == put16(b8, 10, ipChecksum(Slice(b8, 0, 20)))
         IN  [err |-> nil, buf |-> b9, h |-> h]

IP4Header_MarshalPseudo(h, b) ==
    IF Len(b) < ipHeaderLength
    THEN [err |-> errSmallBuffer, buf |-> b, h |-> h]
    ELSE IF Len(b) > maxPacketLength
    THEN [err |-> errLargePacket, buf |-> b, h |-> h]
    ELSE LET length == Len(b) - ipHeaderLength
             b1 == put32(b, 8, h.SrcIP)
             b2 == put32(b1, 12, h.DstIP)
             b3 == set8(set8(b2, 16, 0), 17, U8(h.IPProto))
             b4 == put16(b3, 18, U16(length))
         IN  [err |-> nil, buf |-> b4, h |-> h]

\* ToResponse that assigns the two addresses one after the other
IP4Header_ToResponse_SeqSwap(h) ==
    [h EXCEPT !.SrcIP = h.DstIP, !.DstIP = h.DstIP, !.IPID = Not16(h.IPID)]

\* The receiver is a pointer: the result is the header value after the call.
IP4Header_ToResponse(h) ==
    [h EXCEPT !.SrcIP = h.DstIP, !.DstIP = h.SrcIP, !.IPID = Not16(h.IPID)]

----------------------------------------------------------------------------
(* icmp4.go *)

\* Marshal that leaves the embedded IPProto as the caller set it
ICMP4Header_Marshal_KeepProto(h, b) ==
    IF Len(b) < icmpAllHeadersLength
    THEN [err |-> errSmallBuffer, buf |-> b, h |-> h]
    ELSE IF Len(b) > maxPacketLength
    THEN [err |-> errLargePacket, buf |-> b, h |-> h]
    ELSE LET b1 == set8(set8(b, 20, U8(h.Type)), 21, U8(h.Code))
             b2 == IP4Header_Marshal(h.IP4Header, b1).buf
             b3 == put16(b2, 22, ipChecksum(b2))
         IN  [err |-> nil, buf |-> b3, h |-> h]

\* Marshal that writes Type and Code first and checks the length after
\* (for the buffers that hold bytes 20 and 21)
ICMP4Header_Marshal_WriteFirst(h, b) ==
    IF Len(b) < ipHeaderLength + 2
    THEN [err |-> errSmallBuffer, buf |-> b, h |-> h]
    ELSE LET b1 == set8(set8(b, 20, U8(h.Type)), 21, U8(h.Code))
         IN  IF Len(b) < icmpAllHeadersLength
             THEN [err |-> errSmallBuffer, buf |-> b1, h |-> h]
             ELSE IF Len(b) > maxPacketLength
             THEN [err |-> errLargePacket, buf |-> b1, h |-> h]
             ELSE LET hc == [h EXCEPT !.IP4Header.IPProto = ICMP]
                      b2 == IP4Header_Marshal(hc.IP4Header, b1).buf
                      b3 == put16(b2, 22, ipChecksum(b2))
                  IN  [err |-> nil, buf |-> b3, h |-> h]

\* Marshal on a pointer receiver: the caller sees the forced IPProto
ICMP4Header_Marshal_PtrRecv(h, b) ==
    IF Len(b) < icmpAllHeadersLength
    THEN [err |-> errSmallBuffer, buf |-> b, h |-> h]
    ELSE IF Len(b) > maxPacketLength
    THEN [err |-> errLargePacket, buf |-> b, h |-> h]
    ELSE LET hc == [h EXCEPT !.IP4Header.IPProto = ICMP]
             b1 == set8(set8(b, 20, U8(hc.Type)), 21, U8(hc.Code))
             b2 == IP4Header_Marshal(hc.IP4Header, b1).buf
             b3 == put16(b2, 22, ipChecksum(b2))
         IN  [err |-> nil, buf |-> b3, h |-> hc]

\* h is an ICMP4Header; the assignment to h.IPProto is to the callee's copy.
ICMP4Header_Marshal(h, b) ==
    IF Len(b) < icmpAllHeadersLength
    THEN [err |-> errSmallBuffer, buf |-> b, h |-> h]
    ELSE IF Len(b) > maxPacketLength
    THEN [err |-> errLargePacket, buf |-> b, h |-> h]
    ELSE LET hc == [h EXCEPT !.IP4Header.IPProto = ICMP]
             b1 == set8(set8(b, 20, U8(hc.Type)), 21, U8(hc.Code))
             b2 == IP4Header_Marshal(hc.IP4Header, b1).buf
             b3 == put16(b2, 22, ipChecksum(b2))
         IN  [err |-> nil, buf |-> b3, h |-> h]

\* ToResponse that sets the Type and leaves the Code
ICMP4Header_ToResponse_KeepCode(h) ==
    [h EXCEPT !.Type = ICMP4EchoReply,
              !.IP4Header = IP4Header_ToResponse(h.IP4Header)]

ICMP4Header_ToResponse(h) ==
    [h EXCEPT !.Type = ICMP4EchoReply, !.Code = ICMP4NoCode,
              !.IP4Header = IP4Header_ToResponse(h.IP4Header)]

----------------------------------------------------------------------------
(* The inputs of the model *)

IPProtos == {Unknown, TCP, Fragment}
IPIDs == {4660, 65535}
\* <<SrcIP, DstIP>>
AddrPairs ==
    { <<IPv4(10, 0, 0, 1), IPv4(10, 0, 0, 2)>>,
      <<IPv4(255, 255, 255, 255), IPv4(224, 0, 0, 1)>> }
ICMP4Types == {ICMP4EchoReply, ICMP4EchoRequest, ICMP4Unreachable}
ICMP4Codes == {ICMP4NoCode, 1}

IP4Headers ==
    { [IPProto |-> p, IPID |-> id, SrcIP |-> a[1], DstIP |-> a[2]] :
        p \in IPProtos, id \in IPIDs, a \in AddrPairs }

ICMP4Headers ==
    { [IP4Header |-> h, Type |-> t, Code |-> c] :
        h \in IP4Headers, t \in ICMP4Types, c \in ICMP4Codes }

\* The buffer lengths around the two header lengths, and around the maximum
SmallLens ==
    {0, ipHeaderLength - 1, ipHeaderLength, icmpAllHeadersLength - 1}
    \cup (icmpAllHeadersLength .. (icmpAllHeadersLength + MaxPayload))
LargeLens == {maxPacketLength, maxPacketLength + 1}

\* What the buffer holds before the call: byte i is p[1] + p[2] * i
Patterns == {<<0, 0>>, <<255, 0>>, <<3, 7>>}
PriorBuf(n, p) == SubSeq([i \in 1..n |-> U8(p[1] + p[2] * (i - 1))], 1, n)

\* The headers marshalled into the buffers of LargeLens
LargeHeaders ==
    { h \in ICMP4Headers :
        /\ h.IP4Header.IPProto = TCP
        /\ h.IP4Header.IPID = 4660
        /\ h.IP4Header.SrcIP = IPv4(10, 0, 0, 1)
        /\ h.Type = ICMP4EchoRequest
        /\ h.Code = ICMP4NoCode }

FirstOctets == {0, 10, 168, 169, 170, 223, 224, 225, 239, 240, 255}
Addrs ==
    { IPv4(a, b, c, d) :
        a \in FirstOctets, b \in {0, 253, 254, 255}, c \in {0, 1, 255}, d \in {0, 1, 255} }

emptyBuf == << >>

----------------------------------------------------------------------------
(* The marshal calls on a header value and a buffer *)

Init ==
    /\ \E h \in ICMP4Headers, n \in SmallLens \cup LargeLens, p \in Patterns :
          /\ n \in LargeLens => (h \in LargeHeaders /\ p[2] # 0)
          /\ hdr = h
          /\ buf = PriorBuf(n, p)
    /\ hdr0 = hdr
    /\ buf0 = buf
    /\ orig = hdr
    /\ op = "init"
    /\ err = nil
    /\ nIP = 0
    /\ nICMP = 0
    /\ ip = IPv4(0, 0, 0, 0)
    /\ ret = FALSE

IP4Marshal ==
    /\ \E r \in {IP4Header_Marshal(hdr.IP4Header, buf)} :
          /\ buf' = r.buf
          /\ err' = r.err
          /\ hdr' = [hdr EXCEPT !.IP4Header = r.h]
    /\ hdr0' = hdr
    /\ buf0' = buf
    /\ op' = "IP4Header.Marshal"
    /\ UNCHANGED <<orig, nIP, nICMP, ip, ret>>

IP4MarshalPseudo ==
    /\ \E r \in {IP4Header_MarshalPseudo(hdr.IP4Header, buf)} :
          /\ buf' = r.buf
          /\ err' = r.err
          /\ hdr' = [hdr EXCEPT !.IP4Header = r.h]
    /\ hdr0' = hdr
    /\ buf0' = buf
    /\ op' = "IP4Header.MarshalPseudo"
    /\ UNCHANGED <<orig, nIP, nICMP, ip, ret>>

ICMP4Marshal ==
    /\ \E r \in {ICMP4Header_Marshal(hdr, buf)} :
          /\ buf' = r.buf
          /\ err' = r.err
          /\ hdr' = r.h
    /\ hdr0' = hdr
    /\ buf0' = buf
    /\ op' = "ICMP4Header.Marshal"
    /\ UNCHANGED <<orig, nIP, nICMP, ip, ret>>

Next == IP4Marshal \/ IP4MarshalPseudo \/ ICMP4Marshal

Spec == Init /\ [][Next]_vars

----------------------------------------------------------------------------
(* The ToResponse calls on a header value *)

InitResp ==
    /\ hdr \in ICMP4Headers
    /\ buf = emptyBuf
    /\ hdr0 = hdr
    /\ buf0 = buf
    /\ orig = hdr
    /\ op = "init"
    /\ err = nil
    /\ nIP = 0
    /\ nICMP = 0
    /\ ip = IPv4(0, 0, 0, 0)
    /\ ret = FALSE

IP4ToResponse ==
    /\ nIP + nICMP < MaxCalls
    /\ hdr' = [hdr EXCEPT !.IP4Header = IP4Header_ToResponse(hdr.IP4Header)]
    /\ hdr0' = hdr
    /\ nIP' = nIP + 1
    /\ op' = "IP4Header.ToResponse"
    /\ UNCHANGED <<buf, buf0, err, orig, nICMP, ip, ret>>

ICMP4ToResponse ==
    /\ nIP + nICMP < MaxCalls
    /\ hdr' = ICMP4Header_ToResponse(hdr)
    /\ hdr0' = hdr
    /\ nICMP' = nICMP + 1
    /\ op' = "ICMP4Header.ToResponse"
    /\ UNCHANGED <<buf, buf0, err, orig, nIP, ip, ret>>

NextResp == IP4ToResponse \/ ICMP4ToResponse

SpecResp == InitResp /\ [][NextResp]_vars

----------------------------------------------------------------------------
(* The classification predicates on an address *)

InitAddr ==
    /\ ip \in Addrs
    /\ ret = FALSE
    /\ op = "init"
    /\ hdr \in LargeHeaders
    /\ buf = emptyBuf
    /\ hdr0 = hdr
    /\ buf0 = buf
    /\ orig = hdr
    /\ err = nil
    /\ nIP = 0
    /\ nICMP = 0

IsMulticast ==
    /\ ret' = IP4_IsMulticast(ip)
    /\ op' = "IP4.IsMulticast"
    /\ UNCHANGED <<hdr, buf, hdr0, buf0, err, orig, nIP, nICMP, ip>>

IsLinkLocalUnicast ==
    /\ ret' = IP4_IsLinkLocalUnicast(ip)
    /\ op' = "IP4.IsLinkLocalUnicast"
    /\ UNCHANGED <<hdr, buf, hdr0, buf0, err, orig, nIP, nICMP, ip>>

NextAddr == IsMulticast \/ IsLinkLocalUnicast

SpecAddr == InitAddr /\ [][NextAddr]_vars

----------------------------------------------------------------------------
(* Properties *)

\* The four bytes of an address, first octet first
Octets(a) == <<a[1] \div 256, a[1] % 256, a[2] \div 256, a[2] % 256>>

\* y is the 16-bit bitwise complement of x
IsComplement16(x, y) == BitAnd(x, y) = 0 /\ BitOr(x, y) = 65535

okIP4Marshal == op = "IP4Header.Marshal" /\ err = nil
okIP4MarshalPseudo == op = "IP4Header.MarshalPseudo" /\ err = nil
okICMP4Marshal == op = "ICMP4Header.Marshal" /\ err = nil

\* C1: after a successful IP4Header.Marshal, whatever the buffer held before,
\* the Internet checksum over bytes [0,20), checksum field included, is 0.
C1_IP4ChecksumValidates ==
    okIP4Marshal => ipChecksum(Slice(buf, 0, ipHeaderLength)) = 0

C1_Witness ==
    /\ okIP4Marshal
    /\ Len(buf) > ipHeaderLength
    /\ get16(buf0, 10) \notin {0, 65535}
    /\ get16(buf, 10) # get16(buf0, 10)

\* C2: the three marshal calls return the small-buffer error below the
\* header's length (20, and 24 for ICMP4Header) and the large-packet error
\* above the maximum, and on either error the buffer is as it was.
C2_LengthErrors ==
    /\ op \in {"IP4Header.Marshal", "IP4Header.MarshalPseudo"} =>
          /\ Len(buf0) < 20 => err = errSmallBuffer
          /\ Len(buf0) > maxPacketLength => err = errLargePacket
    /\ op = "ICMP4Header.Marshal" =>
          /\ Len(buf0) < 24 => err = errSmallBuffer
          /\ Len(buf0) > maxPacketLength => err = errLargePacket
    /\ err # nil => buf = buf0

C2_Witness ==
    /\ op = "ICMP4Header.Marshal"
    /\ Len(buf0) = 23
    /\ err = errSmallBuffer
    /\ buf = buf0
    /\ at(buf, 20) # hdr.Type

\* C3: after a successful ICMP4Header.Marshal, whatever the buffer held
\* before, bytes 22-23 are the Internet checksum of the whole buffer with
\* bytes 22-23 counted as zero.
C3_ICMPChecksumOverZeroedField ==
    okICMP4Marshal => get16(buf, 22) = ipChecksum(put16(buf, 22, 0))

\* C4: after a successful IP4Header.MarshalPseudo, whatever the buffer held
\* before, bytes [0,20) are the pseudo-header: eight zero bytes, SrcIP,
\* DstIP, a zero byte, the protocol and len(buf)-20, big-endian.
C4_PseudoLayout ==
    okIP4MarshalPseudo =>
        Slice(buf, 0, ipHeaderLength) =
            <<0, 0, 0, 0, 0, 0, 0, 0>>
            \o Octets(hdr.IP4Header.SrcIP)
            \o Octets(hdr.IP4Header.DstIP)
            \o <<0, hdr.IP4Header.IPProto,
                 (Len(buf) - 20) \div 256, (Len(buf) - 20) % 256>>

\* C5: after a successful IP4Header.Marshal the buffer holds the wire
\* layout: 0x45, 0, len(buf) untruncated, IPID, 0, TTL 64, the protocol,
\* (the checksum,) SrcIP and DstIP, big-endian.
C5_IP4Layout ==
    okIP4Marshal =>
        /\ at(buf, 0) = 69
        /\ at(buf, 1) = 0
        /\ at(buf, 2) * 256 + at(buf, 3) = Len(buf)
        /\ at(buf, 4) * 256 + at(buf, 5) = hdr.IP4Header.IPID
        /\ at(buf, 6) = 0 /\ at(buf, 7) = 0
        /\ at(buf, 8) = 64
        /\ at(buf, 9) = hdr.IP4Header.IPProto
        /\ Slice(buf, 12, 16) = Octets(hdr.IP4Header.SrcIP)
        /\ Slice(buf, 16, 20) = Octets(hdr.IP4Header.DstIP)

C5_Witness ==
    /\ okIP4Marshal
    /\ Len(buf) = icmpAllHeadersLength + MaxPayload
    /\ at(buf, 3) = Len(buf)
    /\ at(buf0, 0) # 69
    /\ at(buf0, 8) # 64
    /\ hdr.IP4Header.IPProto = Fragment
    /\ hdr.IP4Header.SrcIP = IPv4(255, 255, 255, 255)

\* C6: after a successful ICMP4Header.Marshal, whatever IPProto the caller
\* left in the header, byte 9 is 1 (ICMP) and the IP header in bytes [0,20)
\* sums to 0 with its checksum.
C6_ProtoForcedToICMP ==
    okICMP4Marshal =>
        /\ at(buf, 9) = 1
        /\ ipChecksum(Slice(buf, 0, ipHeaderLength)) = 0

C6_Witness ==
    /\ okICMP4Marshal
    /\ hdr0.IP4Header.IPProto = Fragment
    /\ at(buf0, 9) # 1
    /\ at(buf, 9) = 1

\* C7: one IP4Header.ToResponse swaps SrcIP and DstIP, complements the 16
\* bits of IPID and leaves IPProto; two in a row restore the header.
C7_IP4ToResponseInvolution ==
    /\ op = "IP4Header.ToResponse" =>
          /\ hdr.IP4Header.SrcIP = hdr0.IP4Header.DstIP
          /\ hdr.IP4Header.DstIP = hdr0.IP4Header.SrcIP
          /\ IsComplement16(hdr0.IP4Header.IPID, hdr.IP4Header.IPID)
          /\ hdr.IP4Header.IPProto = hdr0.IP4Header.IPProto
    /\ (nICMP = 0 /\ nIP = 2) => hdr.IP4Header = orig.IP4Header

C7_Witness ==
    /\ nICMP = 0
    /\ nIP = 2
    /\ hdr0.IP4Header # orig.IP4Header
    /\ hdr.IP4Header = orig.IP4Header

\* C8: IsMulticast is true exactly when the first octet is in 224..239, and
\* IsLinkLocalUnicast exactly when the first two octets are 169 and 254.
C8_Classification ==
    /\ op = "IP4.IsMulticast" =>
          (ret <=> Octets(ip)[1] \in 224..239)
    /\ op = "IP4.IsLinkLocalUnicast" =>
          (ret <=> (Octets(ip)[1] = 169 /\ Octets(ip)[2] = 254))

C8_Witness ==
    /\ op = "IP4.IsMulticast"
    /\ ret
    /\ Octets(ip) = <<239, 255, 255, 255>>

\* C9: after n >= 1 calls of ICMP4Header.ToResponse (and no other call) the
\* Type is EchoReply and the Code NoCode, IPProto is the original, and the
\* addresses and IPID are the originals for even n, swapped and complemented
\* for odd n.
C9_ICMPToResponse ==
    (nICMP >= 1 /\ nIP = 0) =>
        /\ hdr.Type = ICMP4EchoReply
        /\ hdr.Code = ICMP4NoCode
        /\ hdr.IP4Header.IPProto = orig.IP4Header.IPProto
        /\ nICMP % 2 = 0 => hdr.IP4Header = orig.IP4Header
        /\ nICMP % 2 = 1 =>
              /\ hdr.IP4Header.SrcIP = orig.IP4Header.DstIP
              /\ hdr.IP4Header.DstIP = orig.IP4Header.SrcIP
              /\ IsComplement16(orig.IP4Header.IPID, hdr.IP4Header.IPID)

C9_Witness ==
    /\ nICMP = 2
    /\ nIP = 0
    /\ orig.Type = ICMP4EchoRequest
    /\ orig.Code # ICMP4NoCode
    /\ hdr.Type = ICMP4EchoReply
    /\ hdr.IP4Header = orig.IP4Header

\* C10: a successful marshal leaves the bytes after the header (from 20, from
\* 24 for ICMP4Header) and the length of the buffer as they were, and no
\* marshal call changes the caller's header value.
C10_Frame ==
    /\ (okIP4Marshal \/ okIP4MarshalPseudo) =>
          /\ Len(buf) = Len(buf0)
          /\ \A i \in ipHeaderLength .. (Len(buf0) - 1) : at(buf, i) = at(buf0, i)
    /\ okICMP4Marshal =>
          /\ Len(buf) = Len(buf0)
          /\ \A i \in icmpAllHeadersLength .. (Len(buf0) - 1) : at(buf, i) = at(buf0, i)
    /\ op \in {"IP4Header.Marshal", "IP4Header.MarshalPseudo", "ICMP4Header.Marshal"} =>
          hdr = hdr0

C10_Witness ==
    /\ okICMP4Marshal
    /\ Len(buf) > icmpAllHeadersLength
    /\ at(buf, icmpAllHeadersLength) # 0
    /\ hdr.IP4Header.IPProto # ICMP
    /\ at(buf, 9) = ICMP
    /\ buf # buf0

====
